---- MODULE Spec2Model ----
(***************************************************************************)
(* Model of the weighted graph engine of src/Graph/Graph.js (class Graph,  *)
(* lines 843-1921): the node and route mutation API, findPathDijkstra,     *)
(* findMatricesFloydWarshall and findPathFloydWarshall.                    *)
(*                                                                         *)
(* JavaScript numbers are modelled by integers; Infinity, NaN, undefined   *)
(* and null are reserved integer codes handled by the Js* operators, which *)
(* follow the JavaScript semantics of +, *, <, > and truthiness.           *)
(* A JavaScript object used as an insertion-ordered map (an adjacency      *)
(* object, Dijkstra's `nodes`) is a sequence of <<key, value>> pairs.      *)
(* this.graph and this.costsNodes are functions over the node names: no    *)
(* operation's outcome depends on the key order of those two objects.      *)
(***************************************************************************)
EXTENDS Integers, Sequences, FiniteSets, TLC

VARIABLES
    graph,              \* this.graph: node name -> adjacency (ordered map)
    costsNodes,         \* this.costsNodes: node name -> toll
    constantNodesCost,  \* this._constantNodesCost
    ignoreErrors,       \* this._ignoreErrors
    autoCreateNodes,    \* this._autoCreateNodes
    distanceMatrix,     \* this.#distanceMatrix (NoMatrix = null)
    precedenceMatrix,   \* this.#precedenceMatrix (NoMatrix = null)
    last,               \* the last API call: its name and outcome (a query: its arguments too)
    calls,              \* number of API calls made so far
    run                 \* the findPathDijkstra call in progress: its arguments, the labels of its main loop

vars == <<graph, costsNodes, constantNodesCost, ignoreErrors, autoCreateNodes,
          distanceMatrix, precedenceMatrix, last, calls, run>>

-----------------------------------------------------------------------------
(* Bounds of the model *)

\* API calls explored after construction (specification Spec)
MaxCalls == 3
\* largest finite edge weight the scaling operations may produce
MaxWeight == 4
\* edges of a graph drawn by the specifications SpecSolve and SpecToll
MaxEdges == 3

-----------------------------------------------------------------------------
(* JavaScript values *)

Infinity == 1000000
NaN == 1000001
Undefined == 1000002
Null == 1000003

\* a finite number
IsFinite(x) == x \notin {Infinity, NaN, Undefined, Null}

\* Number(x): undefined -> NaN, null -> 0
ToNumber(x) == IF x = Undefined THEN NaN ELSE IF x = Null THEN 0 ELSE x

\* isNaN(x)
IsNaN(x) == ToNumber(x) = NaN

\* a + b on numbers (no negative infinity arises in the model)
JsAdd(a, b) ==
    LET x == ToNumber(a)
        y == ToNumber(b)
    IN  IF x = NaN \/ y = NaN THEN NaN
        ELSE IF x = Infinity \/ y = Infinity THEN Infinity
        ELSE x + y

\* a * b on numbers, b finite
JsMul(a, b) ==
    LET x == ToNumber(a)
        y == ToNumber(b)
    IN  IF x = NaN \/ y = NaN THEN NaN
        ELSE IF x = Infinity THEN (IF y = 0 THEN NaN ELSE Infinity)
        ELSE x * y

\* a < b: false as soon as one side is NaN
JsLt(a, b) ==
    LET x == ToNumber(a)
        y == ToNumber(b)
    IN  /\ x # NaN
        /\ y # NaN
        /\ x # Infinity
        /\ (y = Infinity \/ x < y)

JsGt(a, b) == JsLt(b, a)

JsLe(a, b) ==
    LET x == ToNumber(a)
        y == ToNumber(b)
    IN  /\ x # NaN
        /\ y # NaN
        /\ (y = Infinity \/ (x # Infinity /\ x <= y))

\* !x for a number or undefined/null
Falsy(x) == x \in {0, NaN, Undefined, Null}

-----------------------------------------------------------------------------
(* Insertion-ordered maps: sequences of <<key, value>> with distinct keys *)

Keys(m) == [i \in 1..Len(m) |-> m[i][1]]

KeySet(m) == {m[i][1] : i \in 1..Len(m)}

Has(m, k) == k \in KeySet(m)

\* m[k], undefined when absent
Get(m, k) ==
    IF Has(m, k) THEN m[CHOOSE i \in 1..Len(m) : m[i][1] = k][2] ELSE Undefined

\* m[k] = v: in place when the key exists, appended otherwise
Put(m, k, v) ==
    IF Has(m, k)
    THEN [i \in 1..Len(m) |-> IF m[i][1] = k THEN <<k, v>> ELSE m[i]]
    ELSE Append(m, <<k, v>>)

\* delete m[k]
Del(m, k) == SelectSeq(m, LAMBDA p : p[1] # k)


-----------------------------------------------------------------------------
(* Arguments *)

\* a node argument that is null or undefined, or an object without a name
NoName == "<null>"

\* addNode's argument: null, a bare string, or an object {name, cost}
NodeArg(kind, name, cost) == [kind |-> kind, name |-> name, cost |-> cost]

NullNode == NodeArg("null", NoName, Undefined)

BareNode(name) == NodeArg("string", name, Undefined)

\* an object {name, cost, protectNodeCost: true}; addNode reads no property
\* of its argument but name and cost
ProtectedNode(name, cost) ==
    [kind |-> "object", name |-> name, cost |-> cost, protectNodeCost |-> TRUE]

Protects(node) == "protectNodeCost" \in DOMAIN node

\* the outcome of a call on the stores: the stores after it, the error it
\* logged with isError = true ("none" when it logged none) and whether
\* logProcess threw (lines 1152-1154: isError && !this.ignoreErrors)
Out(g, c, err) ==
    [g |-> g, c |-> c, err |-> err, raised |-> (err # "none" /\ ~ignoreErrors)]

-----------------------------------------------------------------------------
(* Node operations *)

\* addNode(node), lines 1162-1217, without extra arguments
AddNodeOp(g, c, node) ==
    IF node.kind = "null" \/ (node.kind = "object" /\ node.name = NoName)
    THEN Out(g, c, "NodeNameRequired")
    ELSE IF node.kind = "object" /\ node.name # "" /\ node.name \in DOMAIN g
    THEN Out(g, c, "NodeExists")
    ELSE IF /\ node.kind = "object"
            /\ node.cost \notin {Undefined, Null}
            /\ (IsNaN(node.cost) \/ ToNumber(node.cost) < 0)
    THEN Out(g, c, "NodeCostInvalid")
    ELSE LET cost == IF node.kind = "string" THEN constantNodesCost ELSE node.cost
         IN  Out([n \in DOMAIN g \cup {node.name} |->
                     IF n = node.name THEN <<>> ELSE g[n]],
                 [n \in DOMAIN c \cup {node.name} |->
                     IF n = node.name THEN cost ELSE c[n]],
                 "none")

\* a rename that leaves the edges into the renamed node as they are
RenameNodeKeepingEdges(g, c, old, new) ==
    [g |-> [n \in (DOMAIN g \ {old}) \cup {new} |-> IF n = new THEN g[old] ELSE g[n]],
     c |-> [n \in (DOMAIN c \ {old}) \cup {new} |-> IF n = new THEN c[old] ELSE c[n]]]

\* a rename that moves the edges but leaves the toll of the node behind
RenameNodeLosingToll(g, c, old, new) ==
    LET moved(adj) ==
            IF Has(adj, old) THEN Del(Put(adj, new, Get(adj, old)), old) ELSE adj
    IN  [g |-> [n \in (DOMAIN g \ {old}) \cup {new} |->
                  IF n = new THEN g[old] ELSE moved(g[n])],
         c |-> [n \in (DOMAIN c \ {old}) \cup {new} |->
                  IF n = new THEN Undefined ELSE c[n]]]

\* the rename loop of editNode, lines 1273-1286
RenameNode(g, c, old, new) ==
    LET rest == DOMAIN g \ {old}
        moved(adj) ==
            IF Get(adj, old) \notin {Undefined, Null}
            THEN Del(Put(adj, new, Get(adj, old)), old)
            ELSE adj
    IN  [g |-> [n \in rest \cup {new} |-> IF n = new THEN g[old] ELSE moved(g[n])],
         c |-> [n \in (DOMAIN c \ {old}) \cup {new} |->
                  IF n = new THEN (IF old \in DOMAIN c THEN c[old] ELSE Undefined)
                  ELSE c[n]]]

\* editNode(nodeName, newNodeName = null, newConstantCost = null), lines 1226-1304
EditNodeOp(g, c, nodeName, newNodeName, newConstantCost) ==
    IF nodeName = NoName \/ nodeName = ""
    THEN Out(g, c, "NodeNameRequired")
    ELSE IF newNodeName = ""
    THEN Out(g, c, "NewNameInvalid")
    ELSE IF nodeName \notin DOMAIN g
    THEN Out(g, c, "NodeNotFound")
    ELSE IF newNodeName # NoName /\ newNodeName \in DOMAIN g
    THEN Out(g, c, "NodeExists")
    ELSE IF IsNaN(newConstantCost) \/ ToNumber(newConstantCost) < 0
    THEN Out(g, c, "NodeCostInvalid")
    ELSE LET r == IF newNodeName # NoName
                  THEN RenameNode(g, c, nodeName, newNodeName)
                  ELSE [g |-> g, c |-> c]
             name == IF newNodeName # NoName THEN newNodeName ELSE nodeName
         IN  Out(r.g,
                 IF newConstantCost # Null
                 THEN [n \in DOMAIN r.c \cup {name} |->
                          IF n = name THEN newConstantCost ELSE r.c[n]]
                 ELSE r.c,
                 "none")

\* a delete that leaves the edges into the deleted node as they are
DeleteNodeKeepingEdges(g, c, node) ==
    IF node \notin DOMAIN g
    THEN Out(g, c, "NodeNotFound")
    ELSE Out([n \in DOMAIN g \ {node} |-> g[n]],
             [n \in DOMAIN c \ {node} |-> c[n]],
             "none")

\* deleteNode(node), lines 1311-1336, without extra arguments
DeleteNodeOp(g, c, node) ==
    IF node \notin DOMAIN g
    THEN Out(g, c, "NodeNotFound")
    ELSE Out([n \in DOMAIN g \ {node} |->
                 IF Get(g[n], node) \notin {Undefined, Null}
                 THEN Del(g[n], node) ELSE g[n]],
             [n \in DOMAIN c \ {node} |-> c[n]],
             "none")

\* avoidNode(node), lines 1343-1355
AvoidNodeOp(g, c, node) ==
    IF node \notin DOMAIN g
    THEN Out(g, c, "NodeNotFound")
    ELSE Out(g,
             [n \in DOMAIN c \cup {node} |-> IF n = node THEN Infinity ELSE c[n]],
             "none")

\* set constantNodesCost(value), lines 981-988
SetConstantNodesCostOp(g, c, value) == Out(g, [n \in DOMAIN c |-> value], "none")

-----------------------------------------------------------------------------
(* Route operations *)

\* this.graph[a][b] = w
SetEdge(g, a, b, w) == [g EXCEPT ![a] = Put(g[a], b, w)]

\* the node auto-creation of addRoute, lines 1402-1413 and 1415-1426
EnsureNode(o, name) ==
    IF o.raised \/ name \in DOMAIN o.g
    THEN o
    ELSE IF autoCreateNodes
    THEN AddNodeOp(o.g, o.c, BareNode(name))
    ELSE Out(o.g, o.c, "NodeNotFound")

\* addRoute(startNode, endNode, weight, bidirectional, changeCreated),
\* lines 1371-1467
AddRouteOp(g, c, startNode, endNode, weight, bidirectional, changeCreated) ==
    IF \/ startNode = NoName
       \/ endNode = NoName
       \/ IsNaN(weight)
       \/ JsLe(weight, 0)
    THEN Out(g, c, "RouteArgsInvalid")
    ELSE LET o1 == EnsureNode(Out(g, c, "none"), startNode)
             o2 == IF o1.err # "none" THEN o1 ELSE EnsureNode(o1, endNode)
         IN  IF o2.err # "none"
             THEN o2
             ELSE IF startNode = endNode
             THEN Out(o2.g, o2.c, "SelfLoop")
             ELSE IF Has(o2.g[startNode], endNode) /\ ~changeCreated
             THEN Out(o2.g, o2.c, "RouteExists")
             ELSE LET g1 == SetEdge(o2.g, startNode, endNode, ToNumber(weight))
                      g2 == IF bidirectional
                            THEN SetEdge(g1, endNode, startNode, ToNumber(weight))
                            ELSE g1
                  IN  Out(g2, o2.c, "none")

\* editRoute(startNode, endNode, weight, bidirectionalEdit), lines 1481-1483
EditRouteOp(g, c, startNode, endNode, weight, bidirectionalEdit) ==
    AddRouteOp(g, c, startNode, endNode, weight, bidirectionalEdit, TRUE)

\* deleteRoute(startNode, endNode, bidirectionalDelete, deleteFromGraph),
\* lines 1492-1553.  The log of a hard delete is made with isError = true
\* (line 1544): it throws, before the delete, when errors are not ignored.
RECURSIVE DeleteRouteOp(_, _, _, _, _, _)
DeleteRouteOp(g, c, startNode, endNode, bidirectionalDelete, deleteFromGraph) ==
    IF startNode \in {NoName, ""} \/ endNode \in {NoName, ""}
    THEN Out(g, c, "RouteArgsInvalid")
    ELSE IF startNode \notin DOMAIN g \/ endNode \notin DOMAIN g
    THEN Out(g, c, "NodeNotFound")
    ELSE IF Get(g[startNode], endNode) \in {Undefined, Null}
    THEN Out(g, c, "PathNotFound")
    ELSE IF deleteFromGraph
    THEN IF ~ignoreErrors
         THEN Out(g, c, "DeletedRouteLog")
         ELSE LET g1 == [g EXCEPT ![startNode] = Del(g[startNode], endNode)]
              IN  IF bidirectionalDelete
                  THEN DeleteRouteOp(g1, c, endNode, startNode, FALSE, deleteFromGraph)
                  ELSE Out(g1, c, "none")
    ELSE EditRouteOp(g, c, startNode, endNode, Infinity, bidirectionalDelete)

\* avoidRoute(startNode, endNode, bidirectionalAvoid), lines 1561-1563
AvoidRouteOp(g, c, startNode, endNode, bidirectionalAvoid) ==
    DeleteRouteOp(g, c, startNode, endNode, bidirectionalAvoid, FALSE)

\* MultiplyByFactorRoutes(factor), lines 1571-1596
MultiplyByFactorRoutesOp(g, c, factor) ==
    IF IsNaN(factor) \/ JsLe(factor, 0)
    THEN Out(g, c, "FactorInvalid")
    ELSE Out([n \in DOMAIN g |->
                 [i \in 1..Len(g[n]) |-> <<g[n][i][1], JsMul(g[n][i][2], factor)>>]],
             c, "none")

\* the guard of the update loop of MultiplyByFactorNodesCosts, line 1614:
\* this.costsNodes.hasOwnProperty[node] reads a property of the function
\* hasOwnProperty, which is undefined for every node name
HasOwnPropertyIndexed(c, node) == FALSE

\* MultiplyByFactorNodesCosts(factor), lines 1604-1625
MultiplyByFactorNodesCostsOp(g, c, factor) ==
    IF IsNaN(factor) \/ JsLt(factor, 0)
    THEN Out(g, c, "FactorInvalid")
    ELSE Out(g,
             [n \in DOMAIN c |->
                 IF HasOwnPropertyIndexed(c, n) THEN JsMul(c[n], factor) ELSE c[n]],
             "none")

-----------------------------------------------------------------------------
(* Dijkstra *)

\* this.costsNodes[node]
CostOf(c, node) == IF node \in DOMAIN c THEN c[node] ELSE Undefined

\* the loop of findCheapestNode from the i-th key on; closest = NoName is null
RECURSIVE CheapestFrom(_, _, _, _, _)
CheapestFrom(c, nodes, visitedNodes, i, closest) ==
    IF i > Len(nodes)
    THEN closest
    ELSE LET node == nodes[i][1]
             isClosest ==
                 \/ closest = NoName
                 \/ JsLt(JsAdd(nodes[i][2], CostOf(c, node)), Get(nodes, closest))
         IN  CheapestFrom(c, nodes, visitedNodes, i + 1,
                 IF isClosest /\ \A v \in 1..Len(visitedNodes) : visitedNodes[v] # node
                 THEN node ELSE closest)

\* findCheapestNode(nodes, visitedNodes), lines 1632-1646
FindCheapestNode(c, nodes, visitedNodes) ==
    CheapestFrom(c, nodes, visitedNodes, 1, NoName)

\* the initial tentative costs and parents, lines 1685-1695
RECURSIVE InitChildren(_, _, _, _, _)
InitChildren(c, adj, i, startNode, st) ==
    IF i > Len(adj)
    THEN st
    ELSE LET child == adj[i][1]
         IN  InitChildren(c, adj, i + 1, startNode,
                 [nodes |-> Put(st.nodes, child,
                                JsAdd(Get(st.nodes, child),
                                      JsAdd(CostOf(c, startNode), CostOf(c, child)))),
                  parents |-> Put(st.parents, child, startNode)])

\* the relaxation of one visited node's neighbours, lines 1739-1755
RECURSIVE Relax(_, _, _, _, _, _, _)
Relax(c, adjNodes, i, startNode, node, actual_cost, st) ==
    IF i > Len(adjNodes)
    THEN st
    ELSE LET adjNode == adjNodes[i][1]
             new_cost == JsAdd(JsAdd(actual_cost, adjNodes[i][2]), CostOf(c, adjNode))
         IN  Relax(c, adjNodes, i + 1, startNode, node, actual_cost,
                 IF adjNode = startNode
                 THEN st
                 ELSE IF Falsy(Get(st.nodes, adjNode))
                         \/ JsLt(new_cost, Get(st.nodes, adjNode))
                 THEN [nodes |-> Put(st.nodes, adjNode, new_cost),
                       parents |-> Put(st.parents, adjNode, node)]
                 ELSE st)

\* Object.assign(target, source) from the i-th key of source on
RECURSIVE Assign(_, _, _)
Assign(target, source, i) ==
    IF i > Len(source)
    THEN target
    ELSE Assign(Put(target, source[i][1], source[i][2]), source, i + 1)

\* the state of the main loop before its first iteration, lines 1684-1699
DijkstraStart(g, c, startNode, endNode) ==
    LET nodes == Assign(<<<<endNode, Infinity>>>>, g[startNode], 1)
        st == InitChildren(c, g[startNode], 1, startNode,
                           [nodes |-> nodes, parents |-> <<>>])
    IN  [nodes |-> st.nodes, parents |-> st.parents, visited |-> <<>>,
         node |-> FindCheapestNode(c, st.nodes, <<>>)]

\* one iteration of the main loop, lines 1721-1780
DijkstraIteration(g, c, startNode, st) ==
    LET adjNodes == IF st.node \in DOMAIN g THEN g[st.node] ELSE <<>>
        r == Relax(c, adjNodes, 1, startNode, st.node, Get(st.nodes, st.node),
                   [nodes |-> st.nodes, parents |-> st.parents])
        visited == Append(st.visited, st.node)
    IN  [nodes |-> r.nodes, parents |-> r.parents, visited |-> visited,
         node |-> FindCheapestNode(c, r.nodes, visited)]

\* while (node), lines 1721-1780: null and the empty string end the loop
RECURSIVE DijkstraLoop(_, _, _, _)
DijkstraLoop(g, c, startNode, st) ==
    IF st.node \in {NoName, ""}
    THEN st
    ELSE DijkstraLoop(g, c, startNode, DijkstraIteration(g, c, startNode, st))

\* the walk over the parents, lines 1782-1787.  The parents no longer change,
\* so a walk longer than the number of recorded parents never ends.
\* parents[k]: a node name, NoName when undefined
ParentOf(parents, k) ==
    IF Has(parents, k) THEN parents[CHOOSE i \in 1..Len(parents) : parents[i][1] = k][2]
    ELSE NoName

RECURSIVE ParentWalk(_, _, _, _)
ParentWalk(parents, parent, path, fuel) ==
    IF parent \in {NoName, ""}
    THEN [path |-> path, diverges |-> FALSE]
    ELSE IF fuel = 0
    THEN [path |-> path, diverges |-> TRUE]
    ELSE ParentWalk(parents, ParentOf(parents, parent), <<parent>> \o path, fuel - 1)

\* what a query returns: the error it logged, whether it threw, whether it
\* loops for ever, and the {cost, path} object
Answer(err, raised, diverges, cost, path) ==
    [err |-> err, raised |-> raised, diverges |-> diverges, cost |-> cost, path |-> path]

\* findPathDijkstra(startNode, endNode), lines 1654-1797, with costFormat null
FindPathDijkstraOp(g, c, startNode, endNode) ==
    IF \/ startNode = NoName
       \/ endNode = NoName
       \/ startNode \notin DOMAIN g
       \/ endNode \notin DOMAIN g
    THEN Answer("NodeNotFound", ~ignoreErrors, FALSE, Undefined, <<>>)
    ELSE IF Len(g[startNode]) = 0
    THEN Answer("NoConnections", ~ignoreErrors, FALSE, Undefined, <<>>)
    ELSE LET fin == DijkstraLoop(g, c, startNode, DijkstraStart(g, c, startNode, endNode))
             walk == ParentWalk(fin.parents, ParentOf(fin.parents, endNode),
                                <<endNode>>, Len(fin.parents) + 1)
         IN  Answer("none", FALSE, walk.diverges, Get(fin.nodes, endNode), walk.path)

-----------------------------------------------------------------------------
(* Floyd-Warshall *)

\* the node names in the order Array.prototype.sort gives them
SortedNames == <<"", "A", "B", "C", "D">>

\* null, for the two cached matrices (no node is named "null")
NoMatrix == [null |-> TRUE]

\* arrayOfNodes, lines 1804-1810
ArrayOfNodes(g) == SelectSeq(SortedNames, LAMBDA n : n \in DOMAIN g)

\* the initial distance matrix, lines 1815-1821
InitialDist(g, c) ==
    [i \in DOMAIN g |-> [j \in DOMAIN g |->
        IF i = j THEN 0
        ELSE LET v == JsAdd(Get(g[i], j), CostOf(c, j))
             IN  IF Falsy(v) THEN Infinity ELSE v]]

\* the value compared with dist[startNode][endNode], lines 1839-1844
ThroughMiddle(c, dist, startNode, middleNode, endNode) ==
    JsAdd(JsAdd(dist[startNode][middleNode], dist[middleNode][endNode]),
          IF middleNode # startNode /\ middleNode # endNode
          THEN 0 ELSE CostOf(c, middleNode))

\* the pairs one middle node updates, lines 1833-1850.  Row and column
\* middleNode are skipped, so the entries read are not written in this pass.
Improves(c, m, middleNode, i, j) ==
    /\ middleNode # i
    /\ middleNode # j
    /\ i # j
    /\ JsGt(m.dist[i][j], ThroughMiddle(c, m.dist, i, middleNode, j))

\* a pass that would improve nothing
MiddlePassSkipped(c, m, middleNode) == m

MiddlePass(c, m, middleNode) ==
    [dist |-> [i \in DOMAIN m.dist |-> [j \in DOMAIN m.dist |->
                  IF Improves(c, m, middleNode, i, j)
                  THEN ThroughMiddle(c, m.dist, i, middleNode, j)
                  ELSE m.dist[i][j]]],
     prec |-> [i \in DOMAIN m.dist |-> [j \in DOMAIN m.dist |->
                  IF Improves(c, m, middleNode, i, j)
                  THEN middleNode
                  ELSE m.prec[i][j]]]]

\* the loop over the middle nodes, lines 1832-1865
RECURSIVE MiddleLoop(_, _, _, _)
MiddleLoop(c, m, arrayOfNodes, k) ==
    IF k > Len(arrayOfNodes)
    THEN m
    ELSE MiddleLoop(c, MiddlePass(c, m, arrayOfNodes[k]), arrayOfNodes, k + 1)

\* a post-pass that adds no toll of the origin
OriginTollDropped(c, dist) == dist

\* the toll of the origin, lines 1867-1875
OriginToll(c, dist) ==
    [row \in DOMAIN dist |-> [col \in DOMAIN dist |->
        IF /\ JsGt(CostOf(c, row), 0)
           /\ JsGt(dist[row][col], 0)
           /\ JsLt(dist[row][col], Infinity)
        THEN JsAdd(dist[row][col], CostOf(c, row))
        ELSE dist[row][col]]]

\* matrices that, once cached, would be kept instead of being computed anew
FindMatricesKeepingCache(g, c) ==
    IF distanceMatrix # NoMatrix
    THEN [dist |-> distanceMatrix, prec |-> precedenceMatrix]
    ELSE LET m0 == [dist |-> InitialDist(g, c),
                    prec |-> [i \in DOMAIN g |-> [j \in DOMAIN g |-> i]]]
             m == MiddleLoop(c, m0, ArrayOfNodes(g), 1)
         IN  [dist |-> OriginToll(c, m.dist), prec |-> m.prec]

\* findMatricesFloydWarshall(), lines 1803-1889, with costFormat null
FindMatricesFloydWarshallOp(g, c) ==
    LET m0 == [dist |-> InitialDist(g, c),
               prec |-> [i \in DOMAIN g |-> [j \in DOMAIN g |-> i]]]
        m == MiddleLoop(c, m0, ArrayOfNodes(g), 1)
    IN  [dist |-> OriginToll(c, m.dist), prec |-> m.prec]

\* the loop of findPathFloydWarshall, lines 1909-1912: predecesor stays the
\* same, so a walk longer than the number of nodes never ends
RECURSIVE PrecedenceWalk(_, _, _, _, _)
PrecedenceWalk(prec, predecesor, endNode, route, fuel) ==
    IF predecesor = endNode
    THEN [route |-> route, diverges |-> FALSE]
    ELSE IF fuel = 0
    THEN [route |-> route, diverges |-> TRUE]
    ELSE PrecedenceWalk(prec, predecesor, prec[predecesor][endNode],
                        Append(route, endNode), fuel - 1)

\* Array.prototype.reverse
Reverse(s) == [i \in 1..Len(s) |-> s[Len(s) + 1 - i]]

\* findPathFloydWarshall(startNode, endNode), lines 1898-1920.  Without
\* matrices the error is logged and, when it does not throw, line 1907 reads
\* a property of null; a start or end that is no row or column does the same.
FindPathFloydWarshallOp(prec, dist, startNode, endNode) ==
    IF (prec = NoMatrix \/ dist = NoMatrix) /\ ~ignoreErrors
    THEN Answer("MatricesRequired", TRUE, FALSE, Undefined, <<>>)
    ELSE IF \/ prec = NoMatrix
            \/ dist = NoMatrix
            \/ startNode \notin DOMAIN prec
            \/ endNode \notin DOMAIN prec
    THEN Answer("TypeError", TRUE, FALSE, Undefined, <<>>)
    ELSE LET predecesor == prec[startNode][endNode]
             walk == PrecedenceWalk(prec, predecesor, endNode, <<>>,
                                    Cardinality(DOMAIN prec) + 1)
         IN  Answer("none", FALSE, walk.diverges, dist[startNode][endNode],
                    Reverse(walk.route \o <<predecesor, startNode>>))

-----------------------------------------------------------------------------
(* The engine as a state machine: one action per API call *)

\* the record kept of the last call: its name, the error it logged, whether
\* it threw and, for a path query, its arguments and what it returned
Call(op, a, b, err, raised, diverges, cost, path) ==
    [op |-> op, a |-> a, b |-> b, err |-> err, raised |-> raised,
     diverges |-> diverges, cost |-> cost, path |-> path]

NoCall == Call("none", NoName, NoName, "none", FALSE, FALSE, Undefined, <<>>)

\* a findPathDijkstra call in progress: its arguments and the locals nodes,
\* parents, visited and node of its main loop
Run(startNode, endNode, st) == [startNode |-> startNode, endNode |-> endNode, st |-> st]

\* no findPathDijkstra call is in progress
NoRun ==
    Run(NoName, NoName, [nodes |-> <<>>, parents |-> <<>>, visited |-> <<>>, node |-> NoName])

\* a mutating operation that would drop the cached matrices
MutationDroppingMatrices(op, o) ==
    /\ graph' = o.g
    /\ costsNodes' = o.c
    /\ last' = Call(op, NoName, NoName, o.err, o.raised, FALSE, Undefined, <<>>)
    /\ calls' = calls + 1
    /\ distanceMatrix' = NoMatrix
    /\ precedenceMatrix' = NoMatrix
    /\ UNCHANGED <<ignoreErrors, autoCreateNodes, run>>

\* a call of a mutating operation with outcome o
Mutation(op, o) ==
    /\ graph' = o.g
    /\ costsNodes' = o.c
    /\ last' = Call(op, NoName, NoName, o.err, o.raised, FALSE, Undefined, <<>>)
    /\ calls' = calls + 1
    /\ UNCHANGED <<ignoreErrors, autoCreateNodes, distanceMatrix, precedenceMatrix, run>>

\* a call of a path query with answer r
Query(op, a, b, r) ==
    /\ last' = Call(op, a, b, r.err, r.raised, r.diverges, r.cost, r.path)
    /\ calls' = calls + 1
    /\ UNCHANGED <<graph, costsNodes, constantNodesCost, ignoreErrors,
                   autoCreateNodes, distanceMatrix, precedenceMatrix, run>>

\* the record of an addNode call keeps the name of a node it created from
\* an argument with protectNodeCost
addNode(node) ==
    LET o == AddNodeOp(graph, costsNodes, node)
    IN  /\ graph' = o.g
        /\ costsNodes' = o.c
        /\ last' = Call("addNode",
                        IF Protects(node) /\ o.err = "none" THEN node.name ELSE NoName,
                        NoName, o.err, o.raised, FALSE, Undefined, <<>>)
        /\ calls' = calls + 1
        /\ UNCHANGED <<constantNodesCost, ignoreErrors, autoCreateNodes,
                       distanceMatrix, precedenceMatrix, run>>

editNode(nodeName, newNodeName, newConstantCost) ==
    /\ Mutation("editNode", EditNodeOp(graph, costsNodes, nodeName, newNodeName, newConstantCost))
    /\ UNCHANGED constantNodesCost

deleteNode(node) ==
    /\ Mutation("deleteNode", DeleteNodeOp(graph, costsNodes, node))
    /\ UNCHANGED constantNodesCost

avoidNode(node) ==
    /\ Mutation("avoidNode", AvoidNodeOp(graph, costsNodes, node))
    /\ UNCHANGED constantNodesCost

setConstantNodesCost(value) ==
    /\ Mutation("constantNodesCost", SetConstantNodesCostOp(graph, costsNodes, value))
    /\ constantNodesCost' = value

addRoute(startNode, endNode, weight, bidirectional, changeCreated) ==
    /\ Mutation("addRoute", AddRouteOp(graph, costsNodes, startNode, endNode, weight,
                           bidirectional, changeCreated))
    /\ UNCHANGED constantNodesCost

editRoute(startNode, endNode, weight, bidirectionalEdit) ==
    /\ Mutation("editRoute", EditRouteOp(graph, costsNodes, startNode, endNode, weight,
                            bidirectionalEdit))
    /\ UNCHANGED constantNodesCost

deleteRoute(startNode, endNode, bidirectionalDelete, deleteFromGraph) ==
    /\ Mutation("deleteRoute", DeleteRouteOp(graph, costsNodes, startNode, endNode,
                              bidirectionalDelete, deleteFromGraph))
    /\ UNCHANGED constantNodesCost

avoidRoute(startNode, endNode, bidirectionalAvoid) ==
    /\ Mutation("avoidRoute", AvoidRouteOp(graph, costsNodes, startNode, endNode, bidirectionalAvoid))
    /\ UNCHANGED constantNodesCost

\* every finite weight stays within the bound of the model
WeightsWithin(g, factor) ==
    \A n \in DOMAIN g : \A i \in 1..Len(g[n]) :
        IsFinite(g[n][i][2]) => g[n][i][2] * factor <= MaxWeight

MultiplyByFactorRoutes(factor) ==
    /\ IsFinite(factor) /\ factor > 0 => WeightsWithin(graph, factor)
    /\ Mutation("MultiplyByFactorRoutes", MultiplyByFactorRoutesOp(graph, costsNodes, factor))
    /\ UNCHANGED constantNodesCost

MultiplyByFactorNodesCosts(factor) ==
    /\ Mutation("MultiplyByFactorNodesCosts", MultiplyByFactorNodesCostsOp(graph, costsNodes, factor))
    /\ UNCHANGED constantNodesCost

findMatricesFloydWarshall ==
    LET m == FindMatricesFloydWarshallOp(graph, costsNodes)
    IN  /\ distanceMatrix' = m.dist
        /\ precedenceMatrix' = m.prec
        /\ last' = Call("findMatricesFloydWarshall", NoName, NoName, "none",
                        FALSE, FALSE, Undefined, <<>>)
        /\ calls' = calls + 1
        /\ UNCHANGED <<graph, costsNodes, constantNodesCost, ignoreErrors,
                       autoCreateNodes, run>>

findPathDijkstra(startNode, endNode) ==
    Query("findPathDijkstra", startNode, endNode,
          FindPathDijkstraOp(graph, costsNodes, startNode, endNode))

findPathFloydWarshall(startNode, endNode) ==
    Query("findPathFloydWarshall", startNode, endNode,
          FindPathFloydWarshallOp(precedenceMatrix, distanceMatrix, startNode, endNode))

(* findPathDijkstra taken one iteration of its main loop at a time *)

\* the checks at lines 1655-1682 that make the call return at once
ReturnsAtOnce(g, startNode, endNode) ==
    \/ startNode \notin DOMAIN g
    \/ endNode \notin DOMAIN g
    \/ Len(g[startNode]) = 0

\* while (node) at line 1721
LoopRuns == run # NoRun /\ run.st.node \notin {NoName, ""}

LoopOver == run # NoRun /\ run.st.node \in {NoName, ""}

\* the call up to its main loop, lines 1654-1699
enterDijkstra(startNode, endNode) ==
    /\ run = NoRun
    /\ IF ReturnsAtOnce(graph, startNode, endNode)
       THEN findPathDijkstra(startNode, endNode)
       ELSE /\ run' = Run(startNode, endNode,
                          DijkstraStart(graph, costsNodes, startNode, endNode))
            /\ UNCHANGED <<graph, costsNodes, constantNodesCost, ignoreErrors,
                           autoCreateNodes, distanceMatrix, precedenceMatrix, last, calls>>

\* one iteration of the main loop, lines 1721-1780
iterateDijkstra ==
    /\ LoopRuns
    /\ run' = Run(run.startNode, run.endNode,
                  DijkstraIteration(graph, costsNodes, run.startNode, run.st))
    /\ UNCHANGED <<graph, costsNodes, constantNodesCost, ignoreErrors,
                   autoCreateNodes, distanceMatrix, precedenceMatrix, last, calls>>

\* the walk over the parents and the return, lines 1782-1797
returnDijkstra ==
    /\ LoopOver
    /\ LET walk == ParentWalk(run.st.parents, ParentOf(run.st.parents, run.endNode),
                              <<run.endNode>>, Len(run.st.parents) + 1)
       IN  last' = Call("findPathDijkstra", run.startNode, run.endNode, "none", FALSE,
                        walk.diverges, Get(run.st.nodes, run.endNode), walk.path)
    /\ calls' = calls + 1
    /\ run' = NoRun
    /\ UNCHANGED <<graph, costsNodes, constantNodesCost, ignoreErrors,
                   autoCreateNodes, distanceMatrix, precedenceMatrix>>

-----------------------------------------------------------------------------
(* Specification Spec: the API called on a freshly constructed engine *)

\* node names the calls use
ApiNames == {"A", "B", "C"}

NameArgs == ApiNames \cup {NoName}

\* arguments of addNode: null, a bare name, the empty string, an object
\* with or without a name and with no cost, a valid cost or a negative cost,
\* an object with a cost and protectNodeCost
NodeArgs ==
    {NullNode} \cup {BareNode(n) : n \in ApiNames \cup {""}}
    \cup {NodeArg("object", n, cost) : n \in NameArgs, cost \in {Undefined, 1, -1}}
    \cup {ProtectedNode(n, 1) : n \in ApiNames}

\* new tolls given to editNode: none, a valid one, a negative one
CostArgs == {Null, 2, -1}

\* weights given to addRoute and editRoute
WeightArgs == {0, 1, 2, Infinity}

\* factors given to the scaling operations
FactorArgs == {2, 0, -1}

\* values given to the constantNodesCost setter
ConstantCostArgs == {0, 1}

\* the constructor, lines 1041-1108: empty stores, no matrices; the options
\* ignoreErrors and autoCreateNodes as the caller gives them
Init ==
    /\ graph = <<>>
    /\ costsNodes = <<>>
    /\ constantNodesCost = 0
    /\ ignoreErrors \in BOOLEAN
    /\ autoCreateNodes \in BOOLEAN
    /\ distanceMatrix = NoMatrix
    /\ precedenceMatrix = NoMatrix
    /\ last = NoCall
    /\ calls = 0
    /\ run = NoRun

\* at most MaxCalls calls are made on an engine
MoreCalls == calls < MaxCalls

Next ==
    \/ MoreCalls /\ \E node \in NodeArgs : addNode(node)
    \/ MoreCalls /\ \E n \in NameArgs, new \in NameArgs, cost \in CostArgs :
                        editNode(n, new, cost)
    \/ MoreCalls /\ \E n \in NameArgs : deleteNode(n)
    \/ MoreCalls /\ \E n \in NameArgs : avoidNode(n)
    \/ MoreCalls /\ \E v \in ConstantCostArgs : setConstantNodesCost(v)
    \/ MoreCalls /\ \E s \in NameArgs, e \in NameArgs, w \in WeightArgs,
                       b \in BOOLEAN, ch \in BOOLEAN : addRoute(s, e, w, b, ch)
    \/ MoreCalls /\ \E s \in NameArgs, e \in NameArgs, w \in WeightArgs, b \in BOOLEAN :
                        editRoute(s, e, w, b)
    \/ MoreCalls /\ \E s \in NameArgs, e \in NameArgs, b \in BOOLEAN, hard \in BOOLEAN :
                        deleteRoute(s, e, b, hard)
    \/ MoreCalls /\ \E s \in NameArgs, e \in NameArgs, b \in BOOLEAN : avoidRoute(s, e, b)
    \/ MoreCalls /\ \E f \in FactorArgs : MultiplyByFactorRoutes(f)
    \/ MoreCalls /\ \E f \in FactorArgs : MultiplyByFactorNodesCosts(f)
    \/ MoreCalls /\ findMatricesFloydWarshall
    \/ MoreCalls /\ \E s \in NameArgs, e \in NameArgs : findPathDijkstra(s, e)
    \/ MoreCalls /\ \E s \in NameArgs, e \in NameArgs : findPathFloydWarshall(s, e)

Spec == Init /\ [][Next]_vars

-----------------------------------------------------------------------------
(* Graphs the solver specifications draw.  Each is a state addNode and      *)
(* addRoute build: the nodes are added, then the edges of each source in    *)
(* the order of its adjacency, and the tolls are given to addNode.          *)

SolveNames == {"A", "B", "C", "D"}

\* the adjacencies of source n with k edges, in every insertion order
RECURSIVE AdjOfLen(_, _, _)
AdjOfLen(n, k, weights) ==
    IF k = 0
    THEN {<<>>}
    ELSE UNION {{Append(adj, <<t, w>>) :
                    t \in (SolveNames \ {n}) \ KeySet(adj), w \in weights} :
                adj \in AdjOfLen(n, k - 1, weights)}

AdjUpTo(n, k, weights) ==
    UNION {AdjOfLen(n, i, weights) :
           i \in 0..(IF k < Cardinality(SolveNames) - 1 THEN k
                     ELSE Cardinality(SolveNames) - 1)}

\* the graph with the given adjacency of each node
GraphOf(a, b, c, d) ==
    [n \in SolveNames |->
        IF n = "A" THEN a ELSE IF n = "B" THEN b ELSE IF n = "C" THEN c ELSE d]

\* graph is drawn with at most maxEdges edges and weights in weights
DrawGraph(maxEdges, weights) ==
    \E a \in AdjUpTo("A", maxEdges, weights) :
    \E b \in AdjUpTo("B", maxEdges - Len(a), weights) :
    \E c \in AdjUpTo("C", maxEdges - Len(a) - Len(b), weights) :
    \E d \in AdjUpTo("D", maxEdges - Len(a) - Len(b) - Len(c), weights) :
        graph = GraphOf(a, b, c, d)

\* an engine with the default options (lines 1044-1046) on which no solver
\* has run yet
FreshSolver ==
    /\ constantNodesCost = 0
    /\ ignoreErrors = TRUE
    /\ autoCreateNodes = FALSE
    /\ distanceMatrix = NoMatrix
    /\ precedenceMatrix = NoMatrix
    /\ last = NoCall
    /\ calls = 0
    /\ run = NoRun

\* The calls explored on a drawn graph: the matrices are computed, then one
\* path query is made.  A query changes nothing but the record of the last
\* call, so a further query from the same engine reaches no new answer.
NoMatrices == distanceMatrix = NoMatrix

MatricesFresh == last.op = "findMatricesFloydWarshall"

(* Specification SpecSolve: the solvers on graphs with positive finite      *)
(* weights and all tolls zero                                               *)
DrawWeights == 1..2

InitSolve ==
    /\ DrawGraph(MaxEdges, DrawWeights)
    /\ costsNodes = [n \in SolveNames |-> 0]
    /\ FreshSolver

NextSolve ==
    \/ NoMatrices /\ findMatricesFloydWarshall
    \/ MatricesFresh /\ \E s \in SolveNames, e \in SolveNames : findPathDijkstra(s, e)
    \/ MatricesFresh /\ \E s \in SolveNames, e \in SolveNames : findPathFloydWarshall(s, e)

SpecSolve == InitSolve /\ [][NextSolve]_vars

(* Specification SpecToll: the solvers on graphs with positive finite       *)
(* weights and non-negative finite tolls                                    *)
DrawTolls == 0..1

InitToll ==
    /\ DrawGraph(MaxEdges, DrawWeights)
    /\ costsNodes \in [SolveNames -> DrawTolls]
    /\ FreshSolver

NextToll ==
    \/ NoMatrices /\ findMatricesFloydWarshall
    \/ MatricesFresh /\ \E s \in SolveNames, e \in SolveNames : findPathDijkstra(s, e)

SpecToll == InitToll /\ [][NextToll]_vars

(* Specification SpecAvoid: the solvers after avoidNode on a graph with      *)
(* positive finite weights and all other tolls zero                         *)
InitAvoid == InitSolve

NextAvoid ==
    \/ last = NoCall /\ \E n \in SolveNames : avoidNode(n)
    \/ last.op = "avoidNode" /\ findMatricesFloydWarshall
    \/ MatricesFresh /\ \E s \in SolveNames, e \in SolveNames : findPathDijkstra(s, e)
    \/ MatricesFresh /\ \E s \in SolveNames, e \in SolveNames : findPathFloydWarshall(s, e)

SpecAvoid == InitAvoid /\ [][NextAvoid]_vars

(* Specification SpecDetour: findPathDijkstra on graphs where a cheap edge  *)
(* into a tolled node competes with a dear edge that avoids it.  The        *)
(* solver never orders the node names, so the start is fixed to "A": every  *)
(* other start is one of these graphs with its nodes renamed.               *)
MaxDetourEdges == 4

DetourWeights == {1, 5}

DetourTolls == {0, 2}

InitDetour ==
    /\ DrawGraph(MaxDetourEdges, DetourWeights)
    /\ costsNodes \in [SolveNames -> DetourTolls]
    /\ FreshSolver

NextDetour ==
    /\ last = NoCall
    /\ \E e \in SolveNames \ {"A"} : findPathDijkstra("A", e)

SpecDetour == InitDetour /\ [][NextDetour]_vars

-----------------------------------------------------------------------------
(* The toll model, stated on the routes of the graph and not on the solvers *)

\* the directed routes from n to e that visit no node twice and avoid seen
RECURSIVE RoutesFrom(_, _, _, _)
RoutesFrom(g, n, e, seen) ==
    IF n = e
    THEN {<<e>>}
    ELSE UNION {{<<n>> \o p : p \in RoutesFrom(g, t, e, seen \cup {n})} :
                t \in KeySet(g[n]) \ (seen \cup {n})}

\* the sum over the hops of p from the i-th on of weight + toll of the target
RECURSIVE HopsCost(_, _, _, _)
HopsCost(g, c, p, i) ==
    IF i >= Len(p)
    THEN 0
    ELSE JsAdd(JsAdd(Get(g[p[i]], p[i + 1]), CostOf(c, p[i + 1])),
               HopsCost(g, c, p, i + 1))

\* toll(start) + sum over the traversed edges of weight + toll of the target
RouteCost(g, c, p) == JsAdd(CostOf(c, p[1]), HopsCost(g, c, p, 1))

Min(S) == CHOOSE x \in S : \A y \in S : x <= y

\* the cost of the cheapest route; with positive weights and non-negative
\* tolls a route that repeats a node is never cheaper than one that does not
CheapestCost(g, c, s, e) ==
    LET costs == {RouteCost(g, c, p) : p \in RoutesFrom(g, s, e, {})}
    IN  IF costs = {} THEN Infinity ELSE Min(costs)

CheapestRoutes(g, c, s, e) ==
    {p \in RoutesFrom(g, s, e, {}) : RouteCost(g, c, p) = CheapestCost(g, c, s, e)}

\* what findPathFloydWarshall answers on the cached matrices
FloydWarshallAnswer(s, e) ==
    FindPathFloydWarshallOp(precedenceMatrix, distanceMatrix, s, e)

-----------------------------------------------------------------------------
(* Claims *)

\* C1: with positive finite weights and all tolls zero, the cost returned by
\* findPathDijkstra(start, end) equals the cost findPathFloydWarshall(start,
\* end) returns on the matrices of the same graph, for every pair of
\* existing nodes, start = end and starts without outgoing edge included.
C1_SameCost ==
    last.op = "findPathDijkstra" =>
        last.cost = FloydWarshallAnswer(last.a, last.b).cost

\* C2: with positive finite weights and zero tolls, when the cheapest route
\* from start to end is unique, findPathDijkstra and findPathFloydWarshall
\* return the same node sequence, whatever the number of hops.
C2_SamePath ==
    (/\ last.op = "findPathDijkstra"
     /\ last.a # last.b
     /\ Cardinality(CheapestRoutes(graph, costsNodes, last.a, last.b)) = 1)
    => last.path = FloydWarshallAnswer(last.a, last.b).path

\* C3: with positive finite weights and non-negative finite tolls,
\* findPathDijkstra and findPathFloydWarshall report the same cost and the
\* same path for every pair of existing nodes with start # end.
C3_SameAnswer ==
    (last.op = "findPathDijkstra" /\ last.a # last.b) =>
        /\ last.cost = FloydWarshallAnswer(last.a, last.b).cost
        /\ last.path = FloydWarshallAnswer(last.a, last.b).path

\* C4: with positive finite weights and non-negative finite tolls, for
\* start # end where start has an outgoing edge, the cost returned by
\* findPathDijkstra is the cost of the cheapest directed route under the
\* toll model, +infinity when end is unreachable.
C4_DijkstraCheapest ==
    (/\ last.op = "findPathDijkstra"
     /\ last.a # last.b
     /\ Len(graph[last.a]) > 0)
    => last.cost = CheapestCost(graph, costsNodes, last.a, last.b)

\* C5: after findMatricesFloydWarshall on a graph with positive finite
\* weights and non-negative tolls, dist[i][i] = 0 and, for i # j, dist[i][j]
\* is the cost of the cheapest directed route from i to j under the toll
\* model, +infinity exactly when there is no directed route.
C5_DistCheapest ==
    last.op = "findMatricesFloydWarshall" =>
        \A i \in DOMAIN graph, j \in DOMAIN graph :
            /\ i = j => distanceMatrix[i][j] = 0
            /\ i # j => /\ distanceMatrix[i][j] = CheapestCost(graph, costsNodes, i, j)
                        /\ distanceMatrix[i][j] = Infinity
                               <=> RoutesFrom(graph, i, j, {}) = {}

\* the matrices hold a route of three hops from a tolled origin through
\* tolled nodes, and a pair without any route
C5_Witness ==
    /\ last.op = "findMatricesFloydWarshall"
    /\ \E i \in DOMAIN graph, j \in DOMAIN graph :
           /\ costsNodes[i] > 0
           /\ IsFinite(distanceMatrix[i][j])
           /\ \A p \in CheapestRoutes(graph, costsNodes, i, j) :
                  Len(p) = 4 /\ costsNodes[p[2]] > 0
    /\ \E i \in DOMAIN graph, j \in DOMAIN graph : distanceMatrix[i][j] = Infinity

\* C6: after findMatricesFloydWarshall, for start # end with finite
\* dist[start][end], the path of findPathFloydWarshall begins with start,
\* ends with end, repeats no node, follows stored edges, and its cost under
\* the toll model is the returned cost; for routes of 1, 2, 3 or more hops.
C6_PathIsRoute ==
    (/\ last.op = "findPathFloydWarshall"
     /\ last.err = "none"
     /\ last.a # last.b
     /\ IsFinite(distanceMatrix[last.a][last.b]))
    => /\ ~last.diverges
       /\ last.cost = distanceMatrix[last.a][last.b]
       /\ last.path[1] = last.a
       /\ last.path[Len(last.path)] = last.b
       /\ \A i \in 1..Len(last.path), j \in 1..Len(last.path) :
              i # j => last.path[i] # last.path[j]
       /\ \A i \in 1..(Len(last.path) - 1) :
              Has(graph[last.path[i]], last.path[i + 1])
       /\ RouteCost(graph, costsNodes, last.path) = last.cost

\* C7: addNode with an identifier that is already a node, given as a bare
\* string or as an object, fails with the duplicate-node error and leaves
\* the edges and the tolls as they were.
C7_DuplicateRejected ==
    [][\A node \in NodeArgs :
          (node.name \in DOMAIN graph /\ addNode(node)) =>
              /\ last'.err = "NodeExists"
              /\ graph' = graph
              /\ costsNodes' = costsNodes]_vars

\* C8: in every state reached by the node, route and scaling operations,
\* failed ones included, every stored edge has its source and its target
\* among the nodes, and the nodes are exactly the keys of the toll store.
C8_EndpointsExist ==
    /\ DOMAIN graph = DOMAIN costsNodes
    /\ \A n \in DOMAIN graph : KeySet(graph[n]) \subseteq DOMAIN graph

\* a renamed node that kept an incoming edge
C8_Witness ==
    /\ last.op = "editNode"
    /\ last.err = "none"
    /\ \E n \in DOMAIN graph, m \in DOMAIN graph : Has(graph[n], m)
    /\ calls = MaxCalls

\* C9: after deleteNode(n) on an existing node n, n is absent from the
\* nodes, from the toll store and from the outgoing edges of every remaining
\* node; the other edges and tolls are unchanged.
C9_DeleteNode ==
    [][\A n \in ApiNames :
          (n \in DOMAIN graph /\ deleteNode(n)) =>
              /\ DOMAIN graph' = DOMAIN graph \ {n}
              /\ DOMAIN costsNodes' = DOMAIN costsNodes \ {n}
              /\ \A m \in DOMAIN graph' :
                     /\ ~Has(graph'[m], n)
                     /\ graph'[m] = Del(graph[m], n)
              /\ \A m \in DOMAIN costsNodes' : costsNodes'[m] = costsNodes[m]]_vars

\* a node was deleted from a graph of three nodes and an edge remains
C9_Witness ==
    /\ last.op = "deleteNode"
    /\ last.err = "none"
    /\ Cardinality(DOMAIN graph) = 2
    /\ \E n \in DOMAIN graph : Len(graph[n]) > 0

\* the errors a mutating operation logs when a precondition fails
PreconditionErrors ==
    {"NodeNameRequired", "NodeExists", "NodeCostInvalid", "NewNameInvalid",
     "NodeNotFound", "RouteArgsInvalid", "SelfLoop", "RouteExists",
     "PathNotFound", "FactorInvalid"}

\* C10: when a mutating operation fails a precondition check, the nodes,
\* the tolls and the edges are exactly as before the call.
C10_NoPartialMutation ==
    [][(calls' # calls /\ last'.err \in PreconditionErrors) =>
          (graph' = graph /\ costsNodes' = costsNodes)]_vars

\* the stores and the cached matrices of the engine
EngineState == <<graph, costsNodes, constantNodesCost, distanceMatrix, precedenceMatrix>>

\* C11: with ignoreErrors = true no operation raises; a call whose
\* precondition is violated, findPathFloydWarshall without matrices or with
\* an unknown start or end included, returns normally and leaves the engine
\* state unchanged.
C11_SuppressedNeverRaises ==
    [][(ignoreErrors /\ calls' # calls) =>
          /\ ~last'.raised
          /\ last'.err # "none" => UNCHANGED EngineState]_vars

\* C12: deleteRoute(from, to) with hardDelete = true on an existing edge
\* succeeds without raising, whether errors are ignored or not; afterwards
\* from->to is absent and the reverse edge (unless bidirectional), all other
\* edges and all tolls are unchanged.
C12_HardDelete ==
    [][\A s \in ApiNames, e \in ApiNames, b \in BOOLEAN :
          (/\ s \in DOMAIN graph
           /\ e \in DOMAIN graph
           /\ Has(graph[s], e)
           /\ deleteRoute(s, e, b, TRUE))
          => /\ ~last'.raised
             /\ DOMAIN graph' = DOMAIN graph
             /\ ~Has(graph'[s], e)
             /\ costsNodes' = costsNodes
             /\ \A n \in DOMAIN graph, m \in DOMAIN graph :
                    (<<n, m>> # <<s, e>> /\ (b => <<n, m>> # <<e, s>>))
                    => Get(graph'[n], m) = Get(graph[n], m)]_vars

\* C13: avoidNode(n) and avoidRoute(a, b, bidirectional) preserve topology:
\* the nodes and the directed edge entries are the same after the call as
\* before; avoidRoute(a, b, true) creates no edge b->a.
C13_AvoidKeepsTopology ==
    [][(\/ \E n \in NameArgs : avoidNode(n)
        \/ \E a \in NameArgs, b \in NameArgs, bi \in BOOLEAN : avoidRoute(a, b, bi))
       => /\ DOMAIN graph' = DOMAIN graph
          /\ \A n \in DOMAIN graph : KeySet(graph'[n]) = KeySet(graph[n])]_vars

\* the nodes a route visits
Visits(p) == {p[i] : i \in 1..Len(p)}

\* C14: after avoidNode(n), a path query that returns a finite cost returns
\* a path that does not contain n; if every route from start to end passes
\* through n, or n is start or end, the returned cost is +infinity.
C14_AvoidedNodeAvoided ==
    \A n \in DOMAIN costsNodes :
        (/\ costsNodes[n] = Infinity
         /\ last.op \in {"findPathDijkstra", "findPathFloydWarshall"})
        => /\ IsFinite(last.cost) => n \notin Visits(last.path)
           /\ (\/ n \in {last.a, last.b}
               \/ \A p \in RoutesFrom(graph, last.a, last.b, {}) : n \in Visits(p))
              => last.cost = Infinity

\* C15: setting constantNodesCost never changes the toll of a node that was
\* added with the protected flag set.
C15_ProtectedKept ==
    [][\A v \in ConstantCostArgs :
          (/\ last.op = "addNode"
           /\ last.a # NoName
           /\ setConstantNodesCost(v))
          => costsNodes'[last.a] = costsNodes[last.a]]_vars

\* C16: after a successful addNode whose argument gives no cost (a bare
\* identifier, or an object with cost absent or null) the stored toll of the
\* new node is the current constantNodesCost, a defined number.
C16_DefaultToll ==
    [][\A node \in NodeArgs :
          (/\ addNode(node)
           /\ last'.err = "none"
           /\ node.cost \in {Undefined, Null})
          => /\ costsNodes'[node.name] = constantNodesCost
             /\ IsFinite(costsNodes'[node.name])]_vars

\* C17: addNode fails with an invalid-argument error and adds no node when
\* the identifier is missing, is the empty string, or the cost is negative;
\* when errors are not ignored the call raises.
C17_InvalidNodeRejected ==
    [][\A node \in NodeArgs :
          (/\ addNode(node)
           /\ \/ node.kind = "null"
              \/ node.name \in {NoName, ""}
              \/ IsFinite(node.cost) /\ node.cost < 0)
          => /\ last'.err \in {"NodeNameRequired", "NodeCostInvalid", "NodeExists"}
             /\ ~ignoreErrors => last'.raised
             /\ graph' = graph
             /\ costsNodes' = costsNodes]_vars

\* C18: after a successful editNode(old, new) rename, new has exactly old's
\* outgoing edges and toll (the new cost when one is given), every edge
\* x->old has become x->new with the same weight, old appears nowhere, and
\* the edges and tolls that do not involve old are unchanged.
C18_Rename ==
    [][\A old \in ApiNames, new \in ApiNames, cost \in CostArgs :
          (/\ last'.op = "editNode"
           /\ last'.err = "none"
           /\ old \in DOMAIN graph
           /\ editNode(old, new, cost))
          => /\ DOMAIN graph' = (DOMAIN graph \ {old}) \cup {new}
             /\ DOMAIN costsNodes' = (DOMAIN costsNodes \ {old}) \cup {new}
             /\ KeySet(graph'[new]) = KeySet(graph[old])
             /\ \A t \in KeySet(graph[old]) : Get(graph'[new], t) = Get(graph[old], t)
             /\ costsNodes'[new] = IF cost = Null THEN costsNodes[old] ELSE cost
             /\ \A x \in DOMAIN graph \ {old} :
                    /\ ~Has(graph'[x], old)
                    /\ Get(graph'[x], new) = Get(graph[x], old)
                    /\ KeySet(graph'[x]) \ {new} = KeySet(graph[x]) \ {old}
                    /\ \A t \in KeySet(graph[x]) \ {old} :
                           Get(graph'[x], t) = Get(graph[x], t)
                    /\ costsNodes'[x] = costsNodes[x]]_vars

\* an editNode succeeded on a graph whose two nodes each have an edge to
\* the other, and a node carries the new cost
C18_Witness ==
    /\ last.op = "editNode"
    /\ last.err = "none"
    /\ Cardinality(DOMAIN graph) = 2
    /\ \A n \in DOMAIN graph : Len(graph[n]) = 1
    /\ \E n \in DOMAIN costsNodes : costsNodes[n] = 2

\* C19: addRoute and editRoute fail with an invalid-argument error and store
\* nothing when the weight is not a finite positive number: zero, negative
\* and +infinity are rejected.
C19_WeightFinitePositive ==
    [][\A s \in NameArgs, e \in NameArgs, w \in WeightArgs, b \in BOOLEAN :
          (/\ ~(IsFinite(w) /\ w > 0)
           /\ \/ editRoute(s, e, w, b)
              \/ \E ch \in BOOLEAN : addRoute(s, e, w, b, ch))
          => /\ last'.err = "RouteArgsInvalid"
             /\ graph' = graph
             /\ costsNodes' = costsNodes]_vars

\* C20: addRoute(from, to, w, bidirectional = true, changeExisting = false)
\* does not overwrite the weight of an existing reverse edge to->from.
C20_ReverseNotOverwritten ==
    [][\A s \in ApiNames, e \in ApiNames, w \in WeightArgs :
          (/\ s \in DOMAIN graph
           /\ e \in DOMAIN graph
           /\ Has(graph[e], s)
           /\ addRoute(s, e, w, TRUE, FALSE))
          => /\ e \in DOMAIN graph'
             /\ Get(graph'[e], s) = Get(graph[e], s)]_vars

\* C21: editRoute(start, end, weight) on two existing nodes with no stored
\* edge start->end, with otherwise valid arguments, fails with an error
\* (raised when errors are surfaced) and creates no edge in either direction.
C21_EditMissingRouteFails ==
    [][\A s \in ApiNames, e \in ApiNames, w \in {1, 2}, b \in BOOLEAN :
          (/\ last'.op = "editRoute"
           /\ s # e
           /\ s \in DOMAIN graph
           /\ e \in DOMAIN graph
           /\ ~Has(graph[s], e)
           /\ editRoute(s, e, w, b))
          => /\ last'.err # "none"
             /\ ~ignoreErrors => last'.raised
             /\ graph' = graph]_vars

\* C22: MultiplyByFactorNodesCosts(f) with f >= 0 replaces the toll of every
\* node by toll * f and leaves every edge unchanged; with a negative f it
\* fails with an error and changes nothing.
C22_TollsScaled ==
    [][\A f \in FactorArgs :
          (/\ last'.op = "MultiplyByFactorNodesCosts"
           /\ MultiplyByFactorNodesCosts(f))
          => IF f >= 0
             THEN /\ graph' = graph
                  /\ DOMAIN costsNodes' = DOMAIN costsNodes
                  /\ \A n \in DOMAIN costsNodes :
                         costsNodes'[n] = JsMul(costsNodes[n], f)
             ELSE /\ last'.err # "none"
                  /\ UNCHANGED EngineState]_vars

\* C25: findPathFloydWarshall(start, end) on an engine on which the matrices
\* were never computed fails with the precomputation-required error and no
\* other kind of failure, and returns no path, whatever the error
\* configuration and the arguments.
C25_MatricesRequired ==
    (last.op = "findPathFloydWarshall" /\ distanceMatrix = NoMatrix)
    => /\ last.err = "MatricesRequired"
       /\ last.path = <<>>

\* C24: after findMatricesFloydWarshall, for every i # j with a finite
\* dist[i][j], prec[i][j] is the node immediately before j on a cheapest
\* path from i to j (i itself for a direct edge): the edge prec[i][j] -> j
\* exists and dist[i][j] is the cost of reaching prec[i][j] from i plus the
\* weight of that edge plus the toll of j.
C24_ImmediatePredecessor ==
    MatricesFresh =>
        \A i \in DOMAIN graph, j \in DOMAIN graph :
            (i # j /\ IsFinite(distanceMatrix[i][j])) =>
                LET p == precedenceMatrix[i][j]
                    reach == IF p = i THEN CostOf(costsNodes, i)
                             ELSE distanceMatrix[i][p]
                IN  /\ Has(graph[p], j)
                    /\ distanceMatrix[i][j] =
                           JsAdd(JsAdd(reach, Get(graph[p], j)), CostOf(costsNodes, j))

\* C30: the solvers and the mutations keep apart.  No mutating operation and
\* no findPathDijkstra call changes the cached matrices, so between two
\* findMatricesFloydWarshall calls findPathFloydWarshall answers the same
\* whatever mutations are interleaved; and no solver call changes the node
\* set, the tolls or the edges.
SolverCalls == {"findMatricesFloydWarshall", "findPathDijkstra", "findPathFloydWarshall"}

C30_SolversAndMutationsApart ==
    [][/\ last'.op # "findMatricesFloydWarshall" =>
              /\ distanceMatrix' = distanceMatrix
              /\ precedenceMatrix' = precedenceMatrix
              /\ \A s \in ApiNames, e \in ApiNames :
                     distanceMatrix # NoMatrix =>
                     FindPathFloydWarshallOp(precedenceMatrix', distanceMatrix', s, e)
                         = FloydWarshallAnswer(s, e)
       /\ last'.op \in SolverCalls =>
              /\ graph' = graph
              /\ costsNodes' = costsNodes
              /\ constantNodesCost' = constantNodesCost]_vars

\* matrices are cached and a later mutation has made them stale
C30_Witness ==
    /\ distanceMatrix # NoMatrix
    /\ last.op \in {"deleteNode", "addRoute", "editNode"}
    /\ last.err = "none"
    /\ distanceMatrix # FindMatricesFloydWarshallOp(graph, costsNodes).dist

-----------------------------------------------------------------------------
(* Specification SpecRecompute: the matrices computed, the graph mutated,   *)
(* the matrices computed again, on graphs with positive finite weights and  *)
(* non-negative finite tolls                                                *)
MaxRecomputeCalls == 3

MoreRecomputeCalls == calls < MaxRecomputeCalls

\* the one mutation is made on an engine whose matrices were computed once
MutateNow == calls = 1 /\ MatricesFresh

NextRecompute ==
    \/ MoreRecomputeCalls /\ findMatricesFloydWarshall
    \/ MutateNow /\ \E s \in SolveNames, e \in SolveNames, w \in DrawWeights :
                        s # e /\ addRoute(s, e, w, FALSE, FALSE)
    \/ MutateNow /\ \E s \in SolveNames, e \in SolveNames :
                        s # e /\ deleteRoute(s, e, FALSE, TRUE)
    \/ MutateNow /\ setConstantNodesCost(1)

SpecRecompute == InitSolve /\ [][NextRecompute]_vars

-----------------------------------------------------------------------------
(* Specification SpecScenario: the graph of the README and of the distance  *)
(* matrix test, built by addRoute on an engine that creates the nodes (all  *)
(* tolls zero), its five routes added in any order; then the matrices and  *)
(* one path query                                                           *)
ScenarioRoutes ==
    {<<"A", "B", 2>>, <<"A", "C", 1>>, <<"B", "C", 2>>, <<"C", "D", 1>>, <<"B", "D", 200>>}

\* the route is stored in graph
Stored(r) == r[1] \in DOMAIN graph /\ Has(graph[r[1]], r[2])

InitScenario ==
    /\ Init
    /\ autoCreateNodes = TRUE

NextScenario ==
    \/ \E r \in ScenarioRoutes : ~Stored(r) /\ addRoute(r[1], r[2], r[3], FALSE, FALSE)
    \/ NoMatrices /\ (\A r \in ScenarioRoutes : Stored(r)) /\ findMatricesFloydWarshall
    \/ MatricesFresh /\ \E s \in SolveNames, e \in SolveNames : findPathDijkstra(s, e)
    \/ MatricesFresh /\ \E s \in SolveNames, e \in SolveNames : findPathFloydWarshall(s, e)

SpecScenario == InitScenario /\ [][NextScenario]_vars

\* the pairs of the scenario graph without a directed route
ScenarioUnreachable ==
    {<<"B", "A">>, <<"C", "A">>, <<"C", "B">>, <<"D", "A">>, <<"D", "B">>, <<"D", "C">>}

\* C26 as stated: on the scenario graph with all tolls zero,
\* findMatricesFloydWarshall yields dist[A][D] = 2, dist[B][D] = 200,
\* dist[C][D] = 1, every self-distance 0 and +infinity for every
\* unreachable pair.
C26_ScenarioAsStated ==
    MatricesFresh =>
        /\ distanceMatrix["A"]["D"] = 2
        /\ distanceMatrix["B"]["D"] = 200
        /\ distanceMatrix["C"]["D"] = 1
        /\ \A n \in SolveNames : distanceMatrix[n][n] = 0
        /\ \A p \in ScenarioUnreachable : distanceMatrix[p[1]][p[2]] = Infinity

\* C26 (amended): on the scenario graph with all tolls zero,
\* findMatricesFloydWarshall yields dist[A][D] = 2, dist[B][D] = 3 (through
\* C, cheaper than the direct edge of weight 200), dist[C][D] = 1, every
\* self-distance 0 and +infinity for every unreachable pair.
C26_Scenario ==
    MatricesFresh =>
        /\ distanceMatrix["A"]["D"] = 2
        /\ distanceMatrix["B"]["D"] = 3
        /\ distanceMatrix["C"]["D"] = 1
        /\ \A n \in SolveNames : distanceMatrix[n][n] = 0
        /\ \A p \in ScenarioUnreachable : distanceMatrix[p[1]][p[2]] = Infinity

\* the matrices of the whole scenario graph, the direct edge B->D stored
\* before the edge B->C
C26_Witness ==
    /\ MatricesFresh
    /\ \A r \in ScenarioRoutes : Stored(r) /\ Get(graph[r[1]], r[2]) = r[3]
    /\ \A n \in SolveNames : costsNodes[n] = 0
    /\ Keys(graph["B"]) = <<"D", "C">>

-----------------------------------------------------------------------------
(* Specification SpecSteps: findPathDijkstra from "A", one iteration of its *)
(* main loop at a time, on graphs with positive finite weights and          *)
(* non-negative finite tolls                                                *)
InitSteps ==
    /\ DrawGraph(MaxEdges, DetourWeights)
    /\ costsNodes \in [SolveNames -> DetourTolls]
    /\ FreshSolver

NextSteps ==
    \/ last = NoCall /\ \E e \in SolveNames \ {"A"} : enterDijkstra("A", e)
    \/ iterateDijkstra
    \/ returnDijkstra

SpecSteps == InitSteps /\ [][NextSteps]_vars

\* the nodes marked visited so far
Visited == {run.st.visited[i] : i \in 1..Len(run.st.visited)}

\* the unvisited nodes that have a tentative cost
Unvisited == KeySet(run.st.nodes) \ Visited

\* C27: during findPathDijkstra, on graphs with positive weights and
\* non-negative tolls, once a node has been marked visited no later
\* iteration changes its tentative cost or its recorded predecessor.
C27_VisitedIsFinal ==
    [][(LoopRuns /\ iterateDijkstra) =>
          \A v \in Visited :
              /\ Get(run'.st.nodes, v) = Get(run.st.nodes, v)
              /\ ParentOf(run'.st.parents, v) = ParentOf(run.st.parents, v)]_vars

\* C28: in every iteration of findPathDijkstra the node findCheapestNode
\* selected is unvisited and its tentative cost is at most the tentative cost
\* of every other unvisited node that has one, also with positive tolls.
C28_SelectedIsCheapest ==
    LoopRuns =>
        /\ run.st.node \in Unvisited
        /\ \A u \in Unvisited : JsLe(Get(run.st.nodes, run.st.node), Get(run.st.nodes, u))

-----------------------------------------------------------------------------
(* Specification SpecTerminate: the solvers on graphs whose nodes were      *)
(* added as a name (toll 0) or as an object without a cost (toll            *)
(* undefined), after at most one avoidNode or avoidRoute call;              *)
(* findPathDijkstra from "A" one iteration at a time                        *)
TerminateWeights == {1}

TerminateTolls == {0, Undefined}

InitTerminate ==
    /\ DrawGraph(MaxEdges, TerminateWeights)
    /\ costsNodes \in [SolveNames -> TerminateTolls]
    /\ FreshSolver

\* no solver was called yet
Unsolved == run = NoRun /\ last.op \in {"none", "avoidNode", "avoidRoute"}

NextTerminate ==
    \/ last = NoCall /\ run = NoRun /\ \E n \in SolveNames : avoidNode(n)
    \/ last = NoCall /\ run = NoRun /\ \E s \in SolveNames, e \in SolveNames :
                                           s # e /\ avoidRoute(s, e, FALSE)
    \/ Unsolved /\ \E e \in SolveNames \ {"A"} : enterDijkstra("A", e)
    \/ iterateDijkstra
    \/ returnDijkstra
    \/ Unsolved /\ findMatricesFloydWarshall
    \/ MatricesFresh /\ \E s \in SolveNames, e \in SolveNames :
                            s # e /\ findPathFloydWarshall(s, e)

SpecTerminate == InitTerminate /\ [][NextTerminate]_vars

\* C29: on every graph the public API can build, nodes added as an object
\* without a cost, avoided nodes and avoided routes included, and for every
\* pair of existing nodes, findPathDijkstra terminates: its main loop visits
\* each node at most once and the walk over the predecessors from end never
\* cycles; and findPathFloydWarshall terminates once the matrices exist.
C29_SolversTerminate ==
    /\ \A i \in 1..Len(run.st.visited), j \in 1..Len(run.st.visited) :
           run.st.visited[i] = run.st.visited[j] => i = j
    /\ last.op \in {"findPathDijkstra", "findPathFloydWarshall"} => ~last.diverges

=============================================================================
